---- MODULE Spec2Model ----
(***************************************************************************)
(* dataWave (src/src/app.js): the aggregation / normalisation pipeline,    *)
(* the fair-rounding wave allocator and the chart controls that use them.  *)
(*                                                                         *)
(* Numbers.  The JavaScript numbers the allocator works on are shares      *)
(* rawSum / total and their products with the integer wave budget.  They   *)
(* are modelled as exact fractions [n |-> numerator, d |-> denominator],   *)
(* so floor and remainder are the integer quotient and remainder; the      *)
(* rounding error of IEEE doubles is not modelled.  NaN and undefined,     *)
(* which the aggregation can produce, are modelled as values of their own. *)
(***************************************************************************)
EXTENDS Integers, Sequences, FiniteSets, TLC

VARIABLES
  \* ---- distributeWaves (app.js 111-132), one call, statement by statement
  pc,          \* "idle", "test" (loop condition), "body", "done", "threw"
  entries,     \* the argument: sequence of [stateCode, share]
  totalWaves,  \* the argument: the budget
  floored,     \* the local array after the floor pass and the sort
  delta,       \* the local delta
  i,           \* the loop index
  counts,      \* the returned object: stateCode -> count
  \* ---- aggregateAndNormalize (app.js 57-109), one call
  aggPc,       \* "forEach", "returned" ("off" when the call is not modelled)
  raw,         \* the records consumed so far by raw.forEach
  acc,         \* [byYearClassState, yearsSet, classesSet]
  out,         \* the returned object [byYearClass, years, classes]
  \* ---- the page (app.js 139-246): controls and chart
  uiPc,          \* "load" before DOMContentLoaded, "ready" between events,
                 \* "hung" when a handler never returns
  currentYear,   \* let currentYear
  classValue,    \* classPicker.value
  warningHidden, \* warning.hidden
  seaNoData,     \* sea.classList contains 'no-data'
  sea,           \* the children of #sea: one [state] per wave
  allocInvoked,  \* whether the last renderChart called distributeWaves
  animationState, \* what setAnimationState last applied to the waves and the
                  \* toggle label: TRUE for 'paused'
  \* ---- the animation flag and the info panel (app.js 146, 168-183, 438-473)
  animationsPaused, \* let animationsPaused
  wasPaused,        \* let wasPaused of initInfoPanel
  panelActive,      \* container.classList contains 'active'
  pointer,          \* where the mouse pointer is: "page", "button", "panel"
  pausedAtOpen,     \* history: animationsPaused just before the panel last opened
  \* ---- the title morph (app.js 316-397); times in twentieths of a second
  morphPc,       \* "load" before initMorph, "scheduled" while a tickMorph
                 \* callback is pending, "stopped" once it is not rescheduled
  mi,            \* let mi
  morph,         \* let morph
  cooldown,      \* let cooldown
  loops,         \* let loops
  isMorphPaused, \* let isMorphPaused
  zeroDtSeen,    \* history: some tickMorph frame so far had dt = 0
  frameParity    \* history: the number of tickMorph frames so far is odd

allocVars == <<pc, entries, totalWaves, floored, delta, i, counts>>
aggVars == <<aggPc, raw, acc, out>>
uiVars == <<uiPc, currentYear, classValue, warningHidden, seaNoData, sea, allocInvoked,
            animationState>>
panelVars == <<animationsPaused, wasPaused, panelActive, pointer, pausedAtOpen>>
morphVars == <<morphPc, mi, morph, cooldown, loops, isMorphPaused, zeroDtSeen, frameParity>>
vars == <<pc, entries, totalWaves, floored, delta, i, counts, aggPc, raw, acc, out,
          uiPc, currentYear, classValue, warningHidden, seaNoData, sea, allocInvoked,
          animationState, animationsPaused, wasPaused, panelActive, pointer, pausedAtOpen,
          morphPc, mi, morph, cooldown, loops, isMorphPaused, zeroDtSeen, frameParity>>

\* ------------------------------------------------------------------ bounds
MaxEntries == 3
MaxBudget == 4
ShareDen == 3

\* ------------------------------------------------------------ small helpers
Max2(a, b) == IF a >= b THEN a ELSE b

RECURSIVE SumSeq(_)
SumSeq(s) == IF s = <<>> THEN 0 ELSE Head(s) + SumSeq(Tail(s))

\* the state codes of STATE_COLORS, in source order
StateCodes ==
  <<"FJ", "PG", "SB", "VU", "NC", "KI", "MH", "FM",
    "NR", "PW", "NU", "WS", "TO", "TV", "PF", "CK">>

\* ------------------------------------------------------------ distributeWaves
\* share > 0 and share === 0 on an exact fraction
SharePositive(sh) == sh.n > 0
ShareIsZero(sh) == sh.n = 0

\* Math.floor(e.share * totalWaves)
FloorExact(sh, W) == (sh.n * W) \div sh.d

\* item.exact - Math.floor(item.exact), as a fraction over the share's denominator
RemOf(sh, W) == [n |-> (sh.n * W) % sh.d, d |-> sh.d]

\* const base = item.share > 0 ? Math.max(1, Math.floor(item.exact)) : 0
BaseCount(sh, W) == IF SharePositive(sh) THEN Max2(1, FloorExact(sh, W)) ELSE 0

\* ideal.map(...) : one floored item per entry, in the entries' order
FlooredOf(es, W) ==
  [k \in 1..Len(es) |->
     [stateCode |-> es[k].stateCode, share |-> es[k].share,
      count |-> BaseCount(es[k].share, W), rem |-> RemOf(es[k].share, W)]]

\* (mutant) assigned += Math.floor(item.exact): the clamp to 1 is forgotten
AssignedOfNoClamp(es, W) ==
  SumSeq([k \in 1..Len(es) |-> FloorExact(es[k].share, W)])

\* assigned, after the map
AssignedOf(es, W) == SumSeq([k \in 1..Len(es) |-> BaseCount(es[k].share, W)])

\* the comparator (a, b) => b.rem - a.rem is > 0 : b must come before a
RemGreater(b, a) == b.rem.n * a.rem.d > a.rem.n * b.rem.d

\* (mutant) an unstable sort: an item is moved past the items of equal remainder
InsertByRemUnstable(sorted, x) ==
  IF \E k \in 1..Len(sorted) : ~RemGreater(sorted[k], x)
  THEN LET k == CHOOSE j \in 1..Len(sorted) :
                  /\ ~RemGreater(sorted[j], x)
                  /\ \A m \in 1..(j - 1) : RemGreater(sorted[m], x)
       IN  SubSeq(sorted, 1, k - 1) \o <<x>> \o SubSeq(sorted, k, Len(sorted))
  ELSE Append(sorted, x)

\* floored.sort((a, b) => b.rem - a.rem): Array.prototype.sort is stable,
\* modelled as an insertion sort that never moves an item past an equal one
RECURSIVE InsertByRem(_, _)
InsertByRem(sorted, x) ==
  IF sorted = <<>> THEN <<x>>
  ELSE IF RemGreater(x, sorted[Len(sorted)])
       THEN Append(InsertByRem(SubSeq(sorted, 1, Len(sorted) - 1), x), sorted[Len(sorted)])
       ELSE Append(sorted, x)

\* (mutant) the sort by remainder is left out
SortByRemNone(s) == s

RECURSIVE SortByRem(_)
SortByRem(s) ==
  IF s = <<>> THEN <<>>
  ELSE InsertByRem(SortByRem(SubSeq(s, 1, Len(s) - 1)), s[Len(s)])

\* (mutant) the reduction branch tests it.count > 0 instead of it.count > 1
WalkBodyBelowOne(fl, dl, ix) ==
  LET it == fl[ix + 1]
      nx == (ix + 1) % Len(fl)
  IN  IF ShareIsZero(it.share) THEN [floored |-> fl, delta |-> dl, i |-> nx]
      ELSE IF dl > 0
           THEN [floored |-> [fl EXCEPT ![ix + 1].count = @ + 1], delta |-> dl - 1, i |-> nx]
      ELSE IF it.count > 0
           THEN [floored |-> [fl EXCEPT ![ix + 1].count = @ - 1], delta |-> dl + 1, i |-> nx]
      ELSE [floored |-> fl, delta |-> dl, i |-> nx]

\* the body of the for loop on floored[i] (0-based i), then i = (i + 1) % length
WalkBody(fl, dl, ix) ==
  LET it == fl[ix + 1]
      nx == (ix + 1) % Len(fl)
  IN  IF ShareIsZero(it.share) THEN [floored |-> fl, delta |-> dl, i |-> nx]
      ELSE IF dl > 0
           THEN [floored |-> [fl EXCEPT ![ix + 1].count = @ + 1], delta |-> dl - 1, i |-> nx]
      ELSE IF it.count > 1
           THEN [floored |-> [fl EXCEPT ![ix + 1].count = @ - 1], delta |-> dl + 1, i |-> nx]
      ELSE [floored |-> fl, delta |-> dl, i |-> nx]

\* Object.fromEntries(floored.map(x => [x.stateCode, x.count])): for a repeated
\* key the last pair wins
FromEntries(fl) ==
  [c \in {fl[k].stateCode : k \in 1..Len(fl)} |->
     LET last == CHOOSE k \in 1..Len(fl) :
                   /\ fl[k].stateCode = c
                   /\ \A m \in (k + 1)..Len(fl) : fl[m].stateCode # c
     IN  fl[last].count]

\* the argument sets of the calls explored.  State codes are only compared for
\* equality, so they are named in order of first appearance.
Shares == {[n |-> a, d |-> ShareDen] : a \in 0..ShareDen}

CodeIndexOk(f) ==
  \A k \in DOMAIN f : \A c \in 1..(f[k] - 1) : \E m \in 1..(k - 1) : f[m] = c

EntrySeqs ==
  UNION {
    {[k \in 1..len |-> [stateCode |-> StateCodes[cs[k]], share |-> ss[k]]] :
       cs \in {f \in [1..len -> 1..len] : CodeIndexOk(f)}, ss \in [1..len -> Shares]}
    : len \in 0..MaxEntries}

\* distributeWaves(entries, totalWaves): lines 113-122, up to the loop
Call ==
  /\ pc = "idle"
  /\ \E es \in EntrySeqs, W \in 0..MaxBudget :
       /\ entries' = es
       /\ totalWaves' = W
       /\ floored' = SortByRem(FlooredOf(es, W))
       /\ delta' = W - AssignedOf(es, W)
       /\ i' = 0
  /\ pc' = "test"
  /\ UNCHANGED <<counts, aggVars, uiVars, panelVars, morphVars>>

\* the loop condition delta !== 0 holds: enter the body
LoopTest ==
  /\ pc = "test"
  /\ delta # 0
  /\ pc' = "body"
  /\ UNCHANGED <<entries, totalWaves, floored, delta, i, counts, aggVars, uiVars, panelVars, morphVars>>

\* the loop body and the update expression; floored[i] of an empty array is
\* undefined, and reading .share of it throws a TypeError
LoopBody ==
  /\ pc = "body"
  /\ IF Len(floored) = 0
     THEN /\ pc' = "threw"
          /\ UNCHANGED <<floored, delta, i>>
     ELSE LET st == WalkBody(floored, delta, i)
          IN  /\ floored' = st.floored
              /\ delta' = st.delta
              /\ i' = st.i
              /\ pc' = "test"
  /\ UNCHANGED <<entries, totalWaves, counts, aggVars, uiVars, panelVars, morphVars>>

\* the loop condition fails: line 131
Return ==
  /\ pc = "test"
  /\ delta = 0
  /\ counts' = FromEntries(floored)
  /\ pc' = "done"
  /\ UNCHANGED <<entries, totalWaves, floored, delta, i, aggVars, uiVars, panelVars, morphVars>>

AllocInit ==
  /\ pc = "idle"
  /\ entries = <<>>
  /\ totalWaves = 0
  /\ floored = <<>>
  /\ delta = 0
  /\ i = 0
  /\ counts = <<>>

\* ------------------------------------------------------ aggregateAndNormalize
\* JavaScript values met by the aggregation: a number (here an integer n, or a
\* quotient n / d), NaN, and undefined (a missing field)
Num(k) == [t |-> "number", n |-> k, d |-> 1]
NaN == [t |-> "NaN", n |-> 0, d |-> 1]
Undefined == [t |-> "undefined", n |-> 0, d |-> 1]

\* a + b on these values: anything but two numbers gives NaN
AddJS(a, b) == IF a.t = "number" /\ b.t = "number" THEN Num(a.n + b.n) ELSE NaN

\* set.add(x) on a Set kept in insertion order
SetAdd(s, x) == IF \E k \in 1..Len(s) : s[k] = x THEN s ELSE Append(s, x)

\* the position of state code sc in a bucket, 0 when absent
IndexOfState(bucket, sc) ==
  IF \E k \in 1..Len(bucket) : bucket[k].sc = sc
  THEN CHOOSE k \in 1..Len(bucket) : bucket[k].sc = sc
  ELSE 0

\* byYearClassState[year][cls], {} when absent
BucketOf(m, key) == IF key \in DOMAIN m THEN m[key] ELSE <<>>

\* (mutant) rank is set when the aggregate is created and never overwritten
BucketStepRankFirst(bucket, d) ==
  LET b1 == IF IndexOfState(bucket, d.state_code) = 0
            THEN Append(bucket,
                   [sc |-> d.state_code, stateName |-> d.state_name,
                    subregion |-> d.subregion_name, rawSum |-> Num(0),
                    rank |-> d.state_rank_per_class, missing |-> d.pct_missing_values])
            ELSE bucket
      k == IndexOfState(b1, d.state_code)
  IN  [b1 EXCEPT ![k].rawSum = AddJS(@, d.value_contribution_to_class),
                 ![k].missing = d.pct_missing_values]

\* lines 74-80 on one bucket: create the state's aggregate on first sight, then
\* add the value and overwrite rank and missing
BucketStep(bucket, d) ==
  LET b1 == IF IndexOfState(bucket, d.state_code) = 0
            THEN Append(bucket,
                   [sc |-> d.state_code, stateName |-> d.state_name,
                    subregion |-> d.subregion_name, rawSum |-> Num(0),
                    rank |-> d.state_rank_per_class, missing |-> d.pct_missing_values])
            ELSE bucket
      k == IndexOfState(b1, d.state_code)
  IN  [b1 EXCEPT ![k].rawSum = AddJS(@, d.value_contribution_to_class),
                 ![k].rank = d.state_rank_per_class,
                 ![k].missing = d.pct_missing_values]

\* the body of raw.forEach, lines 62-81
AggStep(a, d) ==
  LET key == <<d.year, d.class_num>>
      m == a.byYearClassState
  IN  [yearsSet |-> SetAdd(a.yearsSet, d.year),
       classesSet |-> SetAdd(a.classesSet, d.class_num),
       byYearClassState |->
         [q \in DOMAIN m \cup {key} |->
            IF q = key THEN BucketStep(BucketOf(m, key), d) ELSE m[q]]]

\* the accumulators before the first record, lines 58-60
AggEmpty == [yearsSet |-> <<>>, classesSet |-> <<>>, byYearClassState |-> <<>>]

RECURSIVE SumRaw(_)
SumRaw(bucket) ==
  IF bucket = <<>> THEN Num(0)
  ELSE AddJS(SumRaw(SubSeq(bucket, 1, Len(bucket) - 1)), bucket[Len(bucket)].rawSum)

\* (mutant) the reduce starts from 1 instead of 0
TotalOfFromOne(bucket) ==
  LET s == AddJS(Num(1), SumRaw(bucket))
  IN  IF s.t = "NaN" \/ s.n = 0 THEN Num(1) ELSE s

\* Object.values(states).reduce((s, st) => s + st.rawSum, 0) || 1 : NaN and 0 are falsy
TotalOf(bucket) ==
  LET s == SumRaw(bucket)
  IN  IF s.t = "NaN" \/ s.n = 0 THEN Num(1) ELSE s

\* s.rawSum / total, total being a nonzero number
DivJS(a, tot) == IF a.t = "number" THEN [t |-> "number", n |-> a.n, d |-> tot.n] ELSE NaN

\* lines 89-100 on one bucket
NormalizeBucket(bucket) ==
  [k \in 1..Len(bucket) |->
     [sc |-> bucket[k].sc, stateName |-> bucket[k].stateName,
      subregion |-> bucket[k].subregion,
      share |-> DivJS(bucket[k].rawSum, TotalOf(bucket)),
      rank |-> bucket[k].rank, missing |-> bucket[k].missing]]

\* (mutant) the arrays are returned in insertion order, unsorted
SortNumericNone(s) == s

RECURSIVE InsertNumeric(_, _)
InsertNumeric(sorted, x) ==
  IF sorted = <<>> THEN <<x>>
  ELSE IF x - sorted[Len(sorted)] < 0
       THEN Append(InsertNumeric(SubSeq(sorted, 1, Len(sorted) - 1), x), sorted[Len(sorted)])
       ELSE Append(sorted, x)

\* [...set].sort((a, b) => a - b)
RECURSIVE SortNumeric(_)
SortNumeric(s) ==
  IF s = <<>> THEN <<>>
  ELSE InsertNumeric(SortNumeric(SubSeq(s, 1, Len(s) - 1)), s[Len(s)])

\* lines 84-108: the second pass and the returned object
Normalized(a) ==
  [byYearClass |->
     [key \in DOMAIN a.byYearClassState |-> NormalizeBucket(a.byYearClassState[key])],
   years |-> SortNumeric(a.yearsSet),
   classes |-> SortNumeric(a.classesSet)]

\* the whole function on a record sequence
RECURSIVE AggFold(_)
AggFold(rs) ==
  IF rs = <<>> THEN AggEmpty
  ELSE AggStep(AggFold(SubSeq(rs, 1, Len(rs) - 1)), rs[Len(rs)])

aggregateAndNormalize(rs) == Normalized(AggFold(rs))

\* the records fed to the aggregation: every (year, class) pair occurs with one
\* state and one value, and in the bucket of the first year and class two states
\* occur with the values 0, 1, 2 or without the value field
MaxRecords == 3
YearVals == {2020, 2023}
ClassVals == {1, 2}
PoolCodes == {"FJ", "PG"}
ValueVals == {Num(0), Num(1), Num(2), Undefined}
NameRank(sc) == IF sc = "FJ" THEN 1 ELSE 2

RecordOf(y, c, sc, v) ==
  [year |-> y, class_num |-> c, state_code |-> sc, state_name |-> NameRank(sc),
   subregion_name |-> 1, value_contribution_to_class |-> v,
   state_rank_per_class |-> 1, pct_missing_values |-> 0]

RecordPool ==
  {RecordOf(y, c, "FJ", Num(1)) : y \in YearVals, c \in ClassVals}
  \cup {RecordOf(2020, 1, sc, v) : sc \in PoolCodes, v \in ValueVals}

\* raw.forEach visits the next record
ForEachRecord ==
  /\ aggPc = "forEach"
  /\ Len(raw) < MaxRecords
  /\ \E d \in RecordPool :
       /\ raw' = Append(raw, d)
       /\ acc' = AggStep(acc, d)
  /\ UNCHANGED <<aggPc, out, allocVars, uiVars, panelVars, morphVars>>

\* records that repeat one (year, class, state) key with different values,
\* ranks, missing percentages and names, and two records of other keys
FieldPool ==
  {[year |-> 2020, class_num |-> 1, state_code |-> "FJ", state_name |-> nm,
    subregion_name |-> nm, value_contribution_to_class |-> Num(v),
    state_rank_per_class |-> rk, pct_missing_values |-> ms] :
     nm \in {1, 2}, v \in {1, 2}, rk \in {1, 2}, ms \in {0, 5}}
  \cup {[RecordOf(2020, 1, "PG", Num(1)) EXCEPT !.state_rank_per_class = 2],
        [RecordOf(2023, 1, "FJ", Num(2)) EXCEPT !.pct_missing_values = 5]}

\* raw.forEach visits the next record, drawn from FieldPool
ForEachFieldRecord ==
  /\ aggPc = "forEach"
  /\ Len(raw) < MaxRecords
  /\ \E d \in FieldPool :
       /\ raw' = Append(raw, d)
       /\ acc' = AggStep(acc, d)
  /\ UNCHANGED <<aggPc, out, allocVars, uiVars, panelVars, morphVars>>

\* the records are exhausted: normalise and return
Normalize ==
  /\ aggPc = "forEach"
  /\ out' = Normalized(acc)
  /\ aggPc' = "returned"
  /\ UNCHANGED <<raw, acc, allocVars, uiVars, panelVars, morphVars>>

AggIdle ==
  /\ aggPc = "off"
  /\ raw = <<>>
  /\ acc = AggEmpty
  /\ out = <<>>

AggInit ==
  /\ aggPc = "forEach"
  /\ raw = <<>>
  /\ acc = AggEmpty
  /\ out = <<>>

\* ------------------------------------------------- the whole of distributeWaves
\* no item of the walk can change: every item is skipped (share === 0) or, with
\* delta < 0, already at count <= 1.  From here the loop only advances i.
WalkStuck(fl, dl) ==
  \A k \in 1..Len(fl) : ShareIsZero(fl[k].share) \/ (dl < 0 /\ fl[k].count <= 1)

\* the for loop of lines 124-129 run from (fl, dl, ix) to its end, if it has one
RECURSIVE Walk(_, _, _)
Walk(fl, dl, ix) ==
  IF dl = 0 THEN [status |-> "returned", floored |-> fl]
  ELSE IF Len(fl) = 0 THEN [status |-> "threw", floored |-> fl]
  ELSE IF WalkStuck(fl, dl) THEN [status |-> "diverges", floored |-> fl]
  ELSE LET st == WalkBody(fl, dl, ix) IN Walk(st.floored, st.delta, st.i)

\* distributeWaves(entries, totalWaves) as one value: how the call ends and,
\* when it returns, the object it returns
distributeWaves(es, W) ==
  LET w == Walk(SortByRem(FlooredOf(es, W)), W - AssignedOf(es, W), 0)
  IN  [status |-> w.status, counts |-> FromEntries(w.floored)]

\* ---------------------------------------------------------------- the page
WAVE_COUNT == 100

\* byYearClass[key] || {}
InfoOf(byYearClass, key) == IF key \in DOMAIN byYearClass THEN byYearClass[key] ELSE <<>>

\* the comparator of lines 220-223 is < 0: a sorts before b.  Names and
\* subregions are modelled by their collation rank.
EntryBefore(a, b) ==
  \/ a.subregion < b.subregion
  \/ a.subregion = b.subregion /\ a.stateName < b.stateName

RECURSIVE InsertEntry(_, _)
InsertEntry(sorted, x) ==
  IF sorted = <<>> THEN <<x>>
  ELSE IF EntryBefore(x, sorted[Len(sorted)])
       THEN Append(InsertEntry(SubSeq(sorted, 1, Len(sorted) - 1), x), sorted[Len(sorted)])
       ELSE Append(sorted, x)

\* entries.sort(...) of lines 220-223 (stable)
RECURSIVE SortEntries(_)
SortEntries(s) ==
  IF s = <<>> THEN <<>>
  ELSE InsertEntry(SortEntries(SubSeq(s, 1, Len(s) - 1)), s[Len(s)])

\* lines 202-209: Object.entries(info).map(...), in the bucket's insertion order
EntriesOf(info) ==
  [k \in 1..Len(info) |->
     [stateCode |-> info[k].sc, stateName |-> info[k].stateName,
      subregion |-> info[k].subregion, share |-> info[k].share,
      rank |-> info[k].rank, missing |-> info[k].missing]]

\* createWaveElement(color, e): the wave carries data-state = e.stateName
WaveOf(e) == [state |-> <<e.stateName>>]
\* createWaveElement(DFLT_BG, {}): no data attributes
FillerWave == [state |-> <<>>]

\* counts[e.stateCode] || 0
CountFor(cnts, sc) == IF sc \in DOMAIN cnts THEN cnts[sc] ELSE 0

\* lines 228-237: cnt waves per entry, in the entries' order
RECURSIVE PlaceWaves(_, _)
PlaceWaves(es, cnts) ==
  IF es = <<>> THEN <<>>
  ELSE PlaceWaves(SubSeq(es, 1, Len(es) - 1), cnts)
       \o [k \in 1..CountFor(cnts, es[Len(es)].stateCode) |-> WaveOf(es[Len(es)])]

\* lines 240-243: fill up to WAVE_COUNT
FillRemainder(ws) ==
  ws \o [k \in 1..(IF Len(ws) < WAVE_COUNT THEN WAVE_COUNT - Len(ws) ELSE 0) |-> FillerWave]

\* (mutant) the no-data branch leaves the warning hidden
renderChartWarningNeverShown(byYearClass, year, cls) ==
  LET es == EntriesOf(InfoOf(byYearClass, <<year, cls>>))
  IN  IF Len(es) = 0
      THEN [end |-> "returned", warningHidden |-> TRUE, seaNoData |-> TRUE,
            sea |-> <<>>, allocInvoked |-> FALSE]
      ELSE LET sorted == SortEntries(es)
               r == distributeWaves(sorted, WAVE_COUNT)
           IN  IF r.status = "returned"
               THEN [end |-> "returned", warningHidden |-> TRUE, seaNoData |-> FALSE,
                     sea |-> FillRemainder(PlaceWaves(sorted, r.counts)),
                     allocInvoked |-> TRUE]
               ELSE [end |-> r.status, warningHidden |-> TRUE, seaNoData |-> FALSE,
                     sea |-> <<>>, allocInvoked |-> TRUE]

\* renderChart(), lines 197-246, as the page it leaves behind.  When
\* distributeWaves does not return, the page stays as it was at line 225: sea
\* emptied, warning hidden, no-data removed.
renderChart(byYearClass, year, cls) ==
  LET es == EntriesOf(InfoOf(byYearClass, <<year, cls>>))
  IN  IF Len(es) = 0
      THEN [end |-> "returned", warningHidden |-> FALSE, seaNoData |-> TRUE,
            sea |-> <<>>, allocInvoked |-> FALSE]
      ELSE LET sorted == SortEntries(es)
               r == distributeWaves(sorted, WAVE_COUNT)
           IN  IF r.status = "returned"
               THEN [end |-> "returned", warningHidden |-> TRUE, seaNoData |-> FALSE,
                     sea |-> FillRemainder(PlaceWaves(sorted, r.counts)),
                     allocInvoked |-> TRUE]
               ELSE [end |-> r.status, warningHidden |-> TRUE, seaNoData |-> FALSE,
                     sea |-> <<>>, allocInvoked |-> TRUE]

\* the page after a handler that ends with renderChart()
Rendered(year, cls) ==
  LET r == renderChart(out.byYearClass, year, cls)
  IN  /\ warningHidden' = r.warningHidden
      /\ seaNoData' = r.seaNoData
      /\ sea' = r.sea
      /\ allocInvoked' = r.allocInvoked
      /\ animationState' =
           IF r.end = "returned" /\ r.allocInvoked THEN animationsPaused ELSE animationState
      /\ uiPc' = IF r.end = "returned" THEN "ready" ELSE "hung"

\* DOMContentLoaded, lines 479-490: populateControls() leaves the picker on its
\* first option, then renderChart()
DOMContentLoaded ==
  /\ uiPc = "load"
  /\ classValue' = out.classes[1]
  /\ UNCHANGED currentYear
  /\ Rendered(currentYear, out.classes[1])
  /\ UNCHANGED <<allocVars, aggVars, panelVars, morphVars>>

\* years.indexOf(currentYear), 0-based
IndexOfYear(years, y) == (CHOOSE k \in 1..Len(years) : years[k] = y) - 1

\* click on the year toggle, lines 155-159
YearToggleClick ==
  /\ uiPc = "ready"
  /\ LET y == out.years[((IndexOfYear(out.years, currentYear) + 1) % Len(out.years)) + 1]
     IN  /\ currentYear' = y
         /\ Rendered(y, classValue)
  /\ UNCHANGED <<classValue, allocVars, aggVars, panelVars, morphVars>>

\* the user picks another option of the class picker: 'change', line 166
ClassPickerChange ==
  /\ uiPc = "ready"
  /\ \E k \in 1..Len(out.classes) :
       /\ out.classes[k] # classValue
       /\ classValue' = out.classes[k]
       /\ Rendered(currentYear, out.classes[k])
  /\ UNCHANGED <<currentYear, allocVars, aggVars, panelVars, morphVars>>

\* the data sets the page is loaded with: nonempty sequences over the records
\* of the pool that have their value
DataPool == {d \in RecordPool : d.value_contribution_to_class.t = "number"}

DataSets == UNION {[1..len -> DataPool] : len \in 1..MaxRecords}

\* module evaluation, lines 146-150
UIInit ==
  /\ raw \in DataSets
  /\ aggPc = "returned"
  /\ acc = AggFold(raw)
  /\ out = aggregateAndNormalize(raw)
  /\ currentYear = out.years[1]
  /\ uiPc = "load"
  /\ classValue = 0
  /\ warningHidden \in BOOLEAN
  /\ seaNoData = FALSE
  /\ sea = <<>>
  /\ allocInvoked = FALSE
  /\ animationState = FALSE

UIIdle ==
  /\ uiPc = "off"
  /\ currentYear = 0
  /\ classValue = 0
  /\ warningHidden = TRUE
  /\ seaNoData = FALSE
  /\ sea = <<>>
  /\ allocInvoked = FALSE
  /\ animationState = FALSE

\* ---------------------------------------- the animation flag and the info panel
\* setAnimationState(paused), lines 191-195: every wave's animationPlayState and
\* the toggle button's label become a function of the argument
SetAnimationState(paused) == animationState' = paused

\* lines 146 and 447; the panel is closed and the pointer is on the page
PanelInit ==
  /\ animationsPaused = FALSE
  /\ wasPaused = FALSE
  /\ panelActive = FALSE
  /\ pointer = "page"
  /\ pausedAtOpen = FALSE

\* click on the animation toggle, lines 169-172
ToggleClick ==
  /\ uiPc = "ready"
  /\ animationsPaused' = ~animationsPaused
  /\ SetAnimationState(~animationsPaused)
  /\ UNCHANGED <<wasPaused, panelActive, pointer, pausedAtOpen>>
  /\ UNCHANGED <<uiPc, currentYear, classValue, warningHidden, seaNoData, sea, allocInvoked>>
  /\ UNCHANGED <<allocVars, aggVars, morphVars>>

\* keydown with e.code === 'Space' outside a text field, lines 175-183
SpaceKey ==
  /\ uiPc = "ready"
  /\ animationsPaused' = ~animationsPaused
  /\ SetAnimationState(~animationsPaused)
  /\ UNCHANGED <<wasPaused, panelActive, pointer, pausedAtOpen>>
  /\ UNCHANGED <<uiPc, currentYear, classValue, warningHidden, seaNoData, sea, allocInvoked>>
  /\ UNCHANGED <<allocVars, aggVars, morphVars>>

\* the pointer enters the info button, from the page or from the panel:
\* mouseenter on btn, lines 448-453
BtnMouseEnter ==
  /\ uiPc = "ready"
  /\ pointer # "button"
  /\ pointer' = "button"
  /\ wasPaused' = animationsPaused
  /\ animationsPaused' = TRUE
  /\ SetAnimationState(TRUE)
  /\ panelActive' = TRUE
  /\ pausedAtOpen' = IF panelActive THEN pausedAtOpen ELSE animationsPaused
  /\ UNCHANGED <<uiPc, currentYear, classValue, warningHidden, seaNoData, sea, allocInvoked>>
  /\ UNCHANGED <<allocVars, aggVars, morphVars>>

\* closePanel(), lines 455-459
ClosePanel ==
  /\ panelActive' = FALSE
  /\ animationsPaused' = wasPaused
  /\ SetAnimationState(wasPaused)
  /\ UNCHANGED <<wasPaused, pausedAtOpen>>

\* the pointer leaves the button into the panel: mouseleave on btn with
\* pnl.contains(e.relatedTarget), lines 461-465; nothing is done
BtnMouseLeaveIntoPanel ==
  /\ uiPc = "ready"
  /\ pointer = "button"
  /\ panelActive
  /\ pointer' = "panel"
  /\ UNCHANGED <<animationsPaused, wasPaused, panelActive, pausedAtOpen>>
  /\ UNCHANGED <<uiVars, allocVars, aggVars, morphVars>>

\* the pointer leaves the button to anywhere else: mouseleave on btn, lines
\* 461-465, closes the panel
BtnMouseLeaveOutside ==
  /\ uiPc = "ready"
  /\ pointer = "button"
  /\ pointer' = "page"
  /\ ClosePanel
  /\ UNCHANGED <<uiPc, currentYear, classValue, warningHidden, seaNoData, sea, allocInvoked>>
  /\ UNCHANGED <<allocVars, aggVars, morphVars>>

\* the pointer leaves the open panel onto the page overlay: mouseenter on ov,
\* line 467
OverlayMouseEnter ==
  /\ uiPc = "ready"
  /\ pointer = "panel"
  /\ pointer' = "page"
  /\ ClosePanel
  /\ UNCHANGED <<uiPc, currentYear, classValue, warningHidden, seaNoData, sea, allocInvoked>>
  /\ UNCHANGED <<allocVars, aggVars, morphVars>>

\* ------------------------------------------------------------ the title morph
\* Times are counted in twentieths of a second: COOLDOWN = 0.35 s is 7 and
\* MORPH_TIME = 2 s is 40.  A frame's dt is 0..MaxDt twentieths.
MORPH_TIME == 40
COOLDOWN == 7
MAX_LOOPS == 2
\* morphTexts.length
MorphTextsLength == 6
MaxDt == 3

\* lines 328-333, before initMorph
MorphIdle ==
  /\ morphPc = "load"
  /\ mi = MorphTextsLength - 1
  /\ morph = 0
  /\ cooldown = COOLDOWN
  /\ loops = 0
  /\ isMorphPaused = FALSE
  /\ zeroDtSeen = FALSE
  /\ frameParity = FALSE

\* after initMorph(), lines 335-344: the hover listeners are registered and the
\* first tickMorph frame is requested
MorphInit ==
  /\ morphPc = "scheduled"
  /\ mi = MorphTextsLength - 1
  /\ morph = 0
  /\ cooldown = COOLDOWN
  /\ loops = 0
  /\ isMorphPaused = FALSE
  /\ zeroDtSeen = FALSE
  /\ frameParity = FALSE

\* (mutant) tickMorph without the isMorphPaused test of line 369
tickMorphIgnoresHover(dt) ==
  IF loops >= MAX_LOOPS
  THEN [mi |-> mi, loops |-> loops, cooldown |-> COOLDOWN, morph |-> 0, raf |-> TRUE]
  ELSE IF cooldown > 0
  THEN LET cd == cooldown - dt
           mi2 == IF cd <= 0 THEN mi + 1 ELSE mi
           wrapped == cd <= 0 /\ mi2 % MorphTextsLength = 0
           loops2 == IF wrapped THEN loops + 1 ELSE loops
       IN  [mi |-> mi2, loops |-> loops2, cooldown |-> cd, morph |-> 0,
            raf |-> ~(wrapped /\ loops2 >= MAX_LOOPS)]
  ELSE LET m == morph + dt
       IN  [mi |-> mi, loops |-> loops,
            cooldown |-> IF m >= MORPH_TIME THEN COOLDOWN ELSE cooldown,
            morph |-> m, raf |-> TRUE]

\* tickMorph(nowMs), lines 365-397, for a frame dt after the last one: the
\* values it leaves in mi, loops, cooldown and morph, and whether it reaches
\* requestAnimationFrame(tickMorph) at line 396.  doCooldown() sets morph to 0;
\* frac >= 1 is morph >= MORPH_TIME.
tickMorph(dt) ==
  IF isMorphPaused \/ loops >= MAX_LOOPS
  THEN [mi |-> mi, loops |-> loops, cooldown |-> COOLDOWN, morph |-> 0, raf |-> TRUE]
  ELSE IF cooldown > 0
  THEN LET cd == cooldown - dt
           mi2 == IF cd <= 0 THEN mi + 1 ELSE mi
           wrapped == cd <= 0 /\ mi2 % MorphTextsLength = 0
           loops2 == IF wrapped THEN loops + 1 ELSE loops
       IN  [mi |-> mi2, loops |-> loops2, cooldown |-> cd, morph |-> 0,
            raf |-> ~(wrapped /\ loops2 >= MAX_LOOPS)]
  ELSE LET m == morph + dt
       IN  [mi |-> mi, loops |-> loops,
            cooldown |-> IF m >= MORPH_TIME THEN COOLDOWN ELSE cooldown,
            morph |-> m, raf |-> TRUE]

\* the browser runs the requested tickMorph callback
TickMorph ==
  /\ morphPc = "scheduled"
  /\ \E dt \in 0..MaxDt :
        LET t == tickMorph(dt)
        IN  /\ mi' = t.mi
            /\ loops' = t.loops
            /\ cooldown' = t.cooldown
            /\ morph' = t.morph
            /\ morphPc' = IF t.raf THEN "scheduled" ELSE "stopped"
            /\ zeroDtSeen' = (zeroDtSeen \/ dt = 0)
  /\ frameParity' = ~frameParity
  /\ UNCHANGED isMorphPaused
  /\ UNCHANGED <<allocVars, aggVars, uiVars, panelVars>>

\* mouseenter on the morph container, line 340
MorphMouseEnter ==
  /\ morphPc # "load"
  /\ ~isMorphPaused
  /\ isMorphPaused' = TRUE
  /\ UNCHANGED <<morphPc, mi, morph, cooldown, loops, zeroDtSeen, frameParity>>
  /\ UNCHANGED <<allocVars, aggVars, uiVars, panelVars>>

\* mouseleave on the morph container, line 341
MorphMouseLeave ==
  /\ morphPc # "load"
  /\ isMorphPaused
  /\ isMorphPaused' = FALSE
  /\ UNCHANGED <<morphPc, mi, morph, cooldown, loops, zeroDtSeen, frameParity>>
  /\ UNCHANGED <<allocVars, aggVars, uiVars, panelVars>>

Init == AllocInit /\ AggIdle /\ UIIdle /\ PanelInit /\ MorphIdle

Next == Call \/ LoopTest \/ LoopBody \/ Return

Spec == Init /\ [][Next]_vars

\* the JavaScript engine runs a started call to its next statement
FairSpec == Spec /\ WF_vars(LoopTest) /\ WF_vars(LoopBody) /\ WF_vars(Return)

AggNext == ForEachRecord \/ Normalize

AggSpecInit == AllocInit /\ AggInit /\ UIIdle /\ PanelInit /\ MorphIdle

AggSpec == AggSpecInit /\ [][AggNext]_vars

AggFieldNext == ForEachFieldRecord \/ Normalize

AggFieldSpec == AggSpecInit /\ [][AggFieldNext]_vars

UINext == DOMContentLoaded \/ YearToggleClick \/ ClassPickerChange

UISpecInit == AllocInit /\ UIInit /\ PanelInit /\ MorphIdle

UISpec == UISpecInit /\ [][UINext]_vars

PanelNext ==
  \/ ToggleClick \/ SpaceKey \/ BtnMouseEnter \/ BtnMouseLeaveIntoPanel
  \/ BtnMouseLeaveOutside \/ OverlayMouseEnter

\* the page with its chart controls, the animation toggle and the info panel
PanelSpec == UISpecInit /\ [][UINext \/ PanelNext]_vars

MorphNext == TickMorph \/ MorphMouseEnter \/ MorphMouseLeave

MorphSpecInit == AllocInit /\ AggIdle /\ UIIdle /\ PanelInit /\ MorphInit

MorphSpec == MorphSpecInit /\ [][MorphNext]_vars

\* a requested animation frame is eventually delivered, whatever its dt
MorphFairSpec == MorphSpec /\ WF_vars(TickMorph)

\* ------------------------ the two formulations of distributeWaves agree
\* The statement-by-statement run ends as distributeWaves(entries, totalWaves)
\* says: it returns that object, throws, or (when the walk is stuck) does neither.
WalkAgrees ==
  pc # "idle" =>
     LET r == distributeWaves(entries, totalWaves)
     IN  /\ pc = "done" => r.status = "returned" /\ r.counts = counts
         /\ pc = "threw" => r.status = "threw"
         /\ r.status = "diverges" => pc \in {"test", "body"}

\* under FairSpec: a call that the one-value formulation says returns, returns
WalkReturns ==
  (pc = "test" /\ distributeWaves(entries, totalWaves).status = "returned") ~> (pc = "done")

\* ------------------------------------------------- claims on distributeWaves
DistinctCodes(es) ==
  \A a, b \in 1..Len(es) : a # b => es[a].stateCode # es[b].stateCode

\* the number of entries with share > 0
CountNonzero(es) == Cardinality({k \in 1..Len(es) : SharePositive(es[k].share)})

\* the count returned for the k-th entry of the call
ResultOf(k) == counts[entries[k].stateCode]

\* delta as first computed on line 121
Delta0 == totalWaves - AssignedOf(entries, totalWaves)

\* C1: whenever distributeWaves returns for entries with distinct state codes,
\* the returned counts sum to totalWaves exactly.
C1_AllocationSum ==
  (pc = "done" /\ DistinctCodes(entries)) =>
     SumSeq([k \in 1..Len(entries) |-> ResultOf(k)]) = totalWaves

\* a call that returned after the walk handed out rounding slack to several entries
C1_Witness ==
  /\ pc = "done"
  /\ DistinctCodes(entries)
  /\ Len(entries) >= 2
  /\ Delta0 # 0
  /\ totalWaves >= 2

\* C2: when at most totalWaves entries have share > 0, the result gives every
\* entry with share > 0 a count >= 1 and every entry with share 0 the count 0,
\* also after the walk has reduced counts (negative delta).
C2_AtLeastOne ==
  (pc = "done" /\ DistinctCodes(entries) /\ CountNonzero(entries) <= totalWaves) =>
     \A k \in 1..Len(entries) :
        /\ SharePositive(entries[k].share) => ResultOf(k) >= 1
        /\ ShareIsZero(entries[k].share) => ResultOf(k) = 0
        /\ (ResultOf(k) = 0) <=> ShareIsZero(entries[k].share)

\* a returned call whose walk reduced counts, with zero and nonzero shares present
C2_Witness ==
  /\ pc = "done"
  /\ DistinctCodes(entries)
  /\ Delta0 < 0
  /\ \E k \in 1..Len(entries) : ShareIsZero(entries[k].share)
  /\ \E k \in 1..Len(entries) : SharePositive(entries[k].share) /\ ResultOf(k) = 1

\* C3: when more entries have share > 0 than the budget, the call raises before
\* the redistribution loop is entered: it neither runs the loop body nor returns.
\* (The only exception the code can raise is the TypeError of pc = "threw", on
\* an empty array.)
C3_InfeasibleRaises ==
  CountNonzero(entries) > totalWaves => pc \notin {"body", "done"}

\* C4: a call with nonempty entries, budget >= 1 and at most budget entries with
\* share > 0 terminates, whatever the shares sum to and also when all are 0.
C4_Terminates ==
  [](( /\ pc = "test"
       /\ Len(entries) >= 1
       /\ totalWaves >= 1
       /\ CountNonzero(entries) <= totalWaves) => <>(pc = "done"))

\* C5: with budget 0 the call short-circuits before the walk (the loop body is
\* never run) and returns count 0 for every entry.
C5_ZeroBudgetAllZero ==
  (pc # "idle" /\ totalWaves = 0) =>
     /\ pc # "body"
     /\ pc = "done" => \A c \in DOMAIN counts : counts[c] = 0

\* the shares of one bucket, over its common denominator, sum to exactly 1
SharesSumToOne(es) ==
  /\ Len(es) >= 1
  /\ \A k \in 1..Len(es) : es[k].share.d = es[1].share.d
  /\ SumSeq([k \in 1..Len(es) |-> es[k].share.n]) = es[1].share.d

\* share * budget >= 1 for every entry with share > 0: the clamp never applies
NoClamp(es, W) ==
  \A k \in 1..Len(es) : SharePositive(es[k].share) => es[k].share.n * W >= es[k].share.d

\* C10: when the shares sum to 1 and the clamp never applies, every entry gets
\* floor(share*budget) or that plus one, the extra units going to the largest
\* remainders (Hamilton); when every share*budget is an integer the result is
\* exactly share*budget.
C10_Hamilton ==
  (pc = "done" /\ DistinctCodes(entries) /\ SharesSumToOne(entries)
     /\ NoClamp(entries, totalWaves)) =>
     /\ \A k \in 1..Len(entries) :
          LET fl == FloorExact(entries[k].share, totalWaves)
          IN  /\ ResultOf(k) \in {fl, fl + 1}
              /\ RemOf(entries[k].share, totalWaves).n = 0 => ResultOf(k) = fl
     /\ \A a, b \in 1..Len(entries) :
          ( /\ ResultOf(a) = FloorExact(entries[a].share, totalWaves) + 1
            /\ ResultOf(b) = FloorExact(entries[b].share, totalWaves) ) =>
          RemOf(entries[a].share, totalWaves).n >= RemOf(entries[b].share, totalWaves).n

\* a returned call, shares summing to 1 without clamp, in which an extra unit went
\* to one entry and not to another with a smaller nonzero remainder
C10_Witness ==
  /\ pc = "done"
  /\ DistinctCodes(entries)
  /\ SharesSumToOne(entries)
  /\ NoClamp(entries, totalWaves)
  /\ \E a, b \in 1..Len(entries) :
       /\ ResultOf(a) = FloorExact(entries[a].share, totalWaves) + 1
       /\ ResultOf(b) = FloorExact(entries[b].share, totalWaves)
       /\ RemOf(entries[b].share, totalWaves).n > 0
       /\ a > b

\* -------------------------------------------- claims on aggregateAndNormalize
\* every record consumed has a numeric, non-negative contribution value
WellFormed(rs) ==
  \A k \in 1..Len(rs) :
     /\ rs[k].value_contribution_to_class.t = "number"
     /\ rs[k].value_contribution_to_class.n >= 0

\* from the input alone: the sum of the values of the records of one key
RECURSIVE RawSumOf(_, _, _, _)
RawSumOf(rs, y, c, sc) ==
  IF rs = <<>> THEN 0
  ELSE (IF /\ Head(rs).year = y
           /\ Head(rs).class_num = c
           /\ (sc = "*" \/ Head(rs).state_code = sc)
        THEN Head(rs).value_contribution_to_class.n ELSE 0)
       + RawSumOf(Tail(rs), y, c, sc)

ShareSum(bucket) == SumSeq([k \in 1..Len(bucket) |-> bucket[k].share.n])

\* C6 (as stated): the shares of every bucket with at least one state sum to 1.
C6_SharesSumToOne ==
  (aggPc = "returned" /\ WellFormed(raw)) =>
     \A key \in DOMAIN out.byYearClass :
        LET bucket == out.byYearClass[key]
        IN  Len(bucket) >= 1 =>
              \A k \in 1..Len(bucket) : ShareSum(bucket) = bucket[k].share.d

\* C6 (amended): in every bucket whose values sum to a positive total, the
\* shares sum to 1 and each share times the total is the state's raw sum; in a
\* bucket whose values are all 0 every share is 0.
C6_SharesSumToOneIfPositive ==
  (aggPc = "returned" /\ WellFormed(raw)) =>
     \A key \in DOMAIN out.byYearClass :
        LET bucket == out.byYearClass[key]
            total == RawSumOf(raw, key[1], key[2], "*")
        IN  /\ Len(bucket) >= 1
            /\ \A k \in 1..Len(bucket) :
                 /\ bucket[k].share.t = "number"
                 /\ bucket[k].share.d >= 1
                 /\ bucket[k].share.n * total
                      = RawSumOf(raw, key[1], key[2], bucket[k].sc) * bucket[k].share.d
                 /\ total > 0 => ShareSum(bucket) = bucket[k].share.d
                 /\ total = 0 => bucket[k].share.n = 0

\* a returned bucket with two states of different positive shares
C6_Witness ==
  /\ aggPc = "returned"
  /\ WellFormed(raw)
  /\ \E key \in DOMAIN out.byYearClass :
       LET bucket == out.byYearClass[key]
       IN  /\ Len(bucket) = 2
           /\ bucket[1].share.n > bucket[2].share.n
           /\ bucket[2].share.n > 0

StrictlyAscending(s) == \A k \in 1..(Len(s) - 1) : s[k] < s[k + 1]

Permuted(rs, p) == [k \in 1..Len(rs) |-> rs[p[k]]]

\* C7: years and classes hold each distinct year / class of the input exactly
\* once, strictly ascending, and are the same for every permutation of the input.
C7_SortedKeys ==
  aggPc = "returned" =>
     /\ StrictlyAscending(out.years)
     /\ StrictlyAscending(out.classes)
     /\ {out.years[k] : k \in 1..Len(out.years)} = {raw[k].year : k \in 1..Len(raw)}
     /\ {out.classes[k] : k \in 1..Len(out.classes)} = {raw[k].class_num : k \in 1..Len(raw)}
     /\ \A p \in Permutations(1..Len(raw)) :
          LET res == aggregateAndNormalize(Permuted(raw, p))
          IN  res.years = out.years /\ res.classes = out.classes

\* a returned call whose input met the larger year and class first, with a repeat
C7_Witness ==
  /\ aggPc = "returned"
  /\ Len(raw) = MaxRecords
  /\ raw[1].year > raw[2].year
  /\ raw[1].class_num > raw[2].class_num
  /\ raw[MaxRecords].year = raw[1].year
  /\ Len(out.years) = 2
  /\ Len(out.classes) = 2

\* C8: with a record that lacks a required numeric field the aggregation aborts
\* and returns no bucket map.
C8_MalformedAborts ==
  aggPc = "returned" => WellFormed(raw)

\* ------------------------------------------------------- claims on the page
\* from the data alone: some record has the selected year and class
HasRecords(y, c) == \E k \in 1..Len(raw) : raw[k].year = y /\ raw[k].class_num = c

\* C9: after any sequence of year-toggle clicks and class selections, a selected
\* (year, class) without records shows the no-data state (warning visible, sea
\* marked no-data, no waves) and distributeWaves was not invoked; with records
\* the warning is hidden.
C9_NoDataState ==
  uiPc # "load" =>
     /\ ~HasRecords(currentYear, classValue) =>
           /\ ~warningHidden
           /\ seaNoData
           /\ sea = <<>>
           /\ ~allocInvoked
     /\ HasRecords(currentYear, classValue) => warningHidden

\* the no-data state shown after the year was toggled and another class picked
C9_Witness ==
  /\ uiPc = "ready"
  /\ ~HasRecords(currentYear, classValue)
  /\ ~warningHidden
  /\ currentYear # out.years[1]
  /\ classValue # out.classes[1]

\* ------------------------------------- claims on the order of the extra units
\* the position of a floored item in the incoming entries (distinct codes)
IncomingPos(x) == CHOOSE k \in 1..Len(entries) : entries[k].stateCode = x.stateCode

\* the units an item holds beyond its base count
ExtraUnits(x) == x.count - BaseCount(x.share, totalWaves)

\* a is served before b: strictly larger remainder, or equal remainder and an
\* earlier incoming position
ServedBefore(a, b) ==
  \/ a.rem.n * b.rem.d > b.rem.n * a.rem.d
  \/ a.rem.n * b.rem.d = b.rem.n * a.rem.d /\ IncomingPos(a) < IncomingPos(b)

\* C11: with positive delta the extra units go one per entry to the entries with
\* share > 0, in descending order of remainder and, for equal remainders, in
\* incoming order: at every moment of the walk an entry with share > 0 holds no
\* more extra units than any entry with share > 0 that is served before it, and
\* at most one fewer; entries with share 0 get none; the units handed out so far
\* are delta's decrease.
C11_ExtraUnitsOrder ==
  (pc \in {"test", "body", "done"} /\ DistinctCodes(entries) /\ Delta0 > 0) =>
     /\ \A a, b \in 1..Len(floored) :
          ( /\ SharePositive(floored[a].share)
            /\ SharePositive(floored[b].share)
            /\ ServedBefore(floored[a], floored[b]) ) =>
          /\ ExtraUnits(floored[a]) >= ExtraUnits(floored[b])
          /\ ExtraUnits(floored[a]) <= ExtraUnits(floored[b]) + 1
     /\ \A a \in 1..Len(floored) :
          /\ ExtraUnits(floored[a]) >= 0
          /\ ShareIsZero(floored[a].share) => ExtraUnits(floored[a]) = 0
     /\ SumSeq([k \in 1..Len(floored) |-> ExtraUnits(floored[k])]) = Delta0 - delta

\* a returned call in which, of two entries with equal nonzero remainders, the
\* earlier one got the extra unit and the later one did not
C11_Witness ==
  /\ pc = "done"
  /\ DistinctCodes(entries)
  /\ Delta0 > 0
  /\ \E a, b \in 1..Len(floored) :
       /\ floored[a].rem.n = floored[b].rem.n
       /\ floored[a].rem.n > 0
       /\ IncomingPos(floored[a]) < IncomingPos(floored[b])
       /\ ExtraUnits(floored[a]) = 1
       /\ ExtraUnits(floored[b]) = 0

\* ------------------------------------------ claims on the aggregate's fields
KeyOf(d) == <<d.year, d.class_num, d.state_code>>

KeysOf(rs) == {KeyOf(rs[k]) : k \in 1..Len(rs)}

\* the first and the last record of a key, in input order
FirstOf(rs, key) ==
  rs[CHOOSE k \in 1..Len(rs) :
       KeyOf(rs[k]) = key /\ \A m \in 1..(k - 1) : KeyOf(rs[m]) # key]

LastOf(rs, key) ==
  rs[CHOOSE k \in 1..Len(rs) :
       KeyOf(rs[k]) = key /\ \A m \in (k + 1)..Len(rs) : KeyOf(rs[m]) # key]

\* the aggregates / normalised states of a bucket that carry state code sc
ItemsOf(bucket, sc) == {k \in 1..Len(bucket) : bucket[k].sc = sc}

\* C12: for every (year, class, state) key of the input there is one aggregate;
\* its rawSum is the sum of the values of the key's records, its rank and
\* missing percentage are those of the key's last record, its stateName and
\* subregion those of the key's first record; the returned bucket carries the
\* same rank, missing, stateName and subregion.
C12_AggregateFields ==
  aggPc \in {"forEach", "returned"} =>
     /\ DOMAIN acc.byYearClassState = {<<key[1], key[2]>> : key \in KeysOf(raw)}
     /\ \A key \in KeysOf(raw) :
          LET bucket == acc.byYearClassState[<<key[1], key[2]>>]
          IN  /\ Cardinality(ItemsOf(bucket, key[3])) = 1
              /\ \A k \in ItemsOf(bucket, key[3]) :
                   /\ bucket[k].rawSum = Num(RawSumOf(raw, key[1], key[2], key[3]))
                   /\ bucket[k].rank = LastOf(raw, key).state_rank_per_class
                   /\ bucket[k].missing = LastOf(raw, key).pct_missing_values
                   /\ bucket[k].stateName = FirstOf(raw, key).state_name
                   /\ bucket[k].subregion = FirstOf(raw, key).subregion_name
     /\ aggPc = "returned" =>
          \A key \in KeysOf(raw) :
             LET bucket == out.byYearClass[<<key[1], key[2]>>]
             IN  /\ Cardinality(ItemsOf(bucket, key[3])) = 1
                 /\ \A k \in ItemsOf(bucket, key[3]) :
                      /\ bucket[k].rank = LastOf(raw, key).state_rank_per_class
                      /\ bucket[k].missing = LastOf(raw, key).pct_missing_values
                      /\ bucket[k].stateName = FirstOf(raw, key).state_name
                      /\ bucket[k].subregion = FirstOf(raw, key).subregion_name

\* a returned call on three records of one key whose first and last record
\* differ in rank, missing percentage and name, the middle one agreeing with
\* the first
C12_Witness ==
  /\ aggPc = "returned"
  /\ Len(raw) = MaxRecords
  /\ \A k \in 1..Len(raw) : KeyOf(raw[k]) = KeyOf(raw[1])
  /\ raw[1].state_rank_per_class # raw[Len(raw)].state_rank_per_class
  /\ raw[1].pct_missing_values # raw[Len(raw)].pct_missing_values
  /\ raw[1].state_name # raw[Len(raw)].state_name
  /\ raw[2].state_rank_per_class = raw[1].state_rank_per_class
  /\ raw[2].state_name # raw[1].state_name
  /\ raw[1].value_contribution_to_class # raw[2].value_contribution_to_class

\* ------------------------------------------------- claims on the info panel
\* C13: whenever the info panel is closed, animationsPaused is again what it was
\* just before the panel was opened, for every interleaving of button
\* mouseenter / mouseleave, overlay mouseenter, toggle clicks and Space presses.
C13_PauseRestored ==
  [][(panelActive /\ ~panelActive') => animationsPaused' = pausedAtOpen]_vars

\* the entries renderChart builds for the selection, sorted as at lines 220-223
SelectedEntries ==
  SortEntries(EntriesOf(InfoOf(out.byYearClass, <<currentYear, classValue>>)))

\* the number of waves of the sea carrying data-state = name
TaggedWaves(name) == Cardinality({k \in 1..Len(sea) : sea[k].state = <<name>>})

\* the sea holds WAVE_COUNT waves and, for each state of the selection, as many
\* tagged waves as distributeWaves returns for it
SeaMatchesCounts ==
  LET r == distributeWaves(SelectedEntries, WAVE_COUNT)
  IN  /\ r.status = "returned"
      /\ Len(sea) = WAVE_COUNT
      /\ \A k \in 1..Len(SelectedEntries) :
            TaggedWaves(SelectedEntries[k].stateName)
              = CountFor(r.counts, SelectedEntries[k].stateCode)

\* the same for the renderChart calls that return
ReturnedSeaMatchesCounts ==
  (uiPc = "ready" /\ HasRecords(currentYear, classValue)) => SeaMatchesCounts

\* C14: after every renderChart call on a (year, class) bucket that has records,
\* the sea contains exactly WAVE_COUNT waves and each state has as many tagged
\* waves as distributeWaves returned for it.
C14_SeaFilled ==
  (uiPc # "load" /\ HasRecords(currentYear, classValue)) => SeaMatchesCounts

\* ------------------------------------------------ claims on the title morph
\* C15: loops never exceeds MAX_LOOPS; neither mi nor loops changes while the
\* headline is hovered; if every frame has dt > 0 and the headline is eventually
\* never hovered, loops eventually reaches MAX_LOOPS; from then on tickMorph is
\* no longer rescheduled and mi never changes.
C15_MorphLoop ==
  /\ [](loops <= MAX_LOOPS)
  /\ [][isMorphPaused => (mi' = mi /\ loops' = loops)]_vars
  /\ ([]~zeroDtSeen /\ <>[]~isMorphPaused) => <>(loops = MAX_LOOPS)
  /\ [](loops = MAX_LOOPS => morphPc = "stopped")
  /\ [][loops = MAX_LOOPS => mi' = mi]_vars

\* the loop has stopped after its second wrap-around, every frame having had
\* dt > 0, with the headline hovered at the end
C15_Witness ==
  /\ loops = MAX_LOOPS
  /\ morphPc = "stopped"
  /\ mi = MAX_LOOPS * MorphTextsLength
  /\ ~zeroDtSeen
  /\ isMorphPaused

====
